---- MODULE Spec2Model ----
(***************************************************************************)
(* Reverb Draft Creator (src/app.py): one Streamlit script run.  The       *)
(* script previews the uploaded photos and, when "Create Draft" is         *)
(* pressed, validates the inputs, fetches the source listing, posts a      *)
(* draft and then tries up to four upload strategies per photo.            *)
(*                                                                         *)
(* Strings are sequences of one-character strings.  JSON values are        *)
(* records tagged by t: "absent" (key missing), "null", "str", "num",      *)
(* "obj".  HTTP responses are records [raised, status, json]; raised       *)
(* stands for a transport exception of the requests library.               *)
(*                                                                         *)
(* messages holds the st.error, st.success and st.code entries and the     *)
(* st.info entries of the numbered stages; the st.info and st.write lines  *)
(* labelled "Debug:" repeat what photo_requests records and are left out.  *)
(* upload_url and photo_id are written and read within one attempt, so     *)
(* the position pc stands for them.                                        *)
(***************************************************************************)
EXTENDS Integers, Sequences, FiniteSets, TLC

VARIABLES
    pc,              \* position of the script run
    token,           \* st.text_input "Reverb API Token"
    url,             \* st.text_input "Reverb Listing URL"
    uploaded_files,  \* st.file_uploader: sequence of [size, pos]
    listing_id,      \* extract_listing_id(url)
    listing,         \* r.json() of the listing GET
    payload,         \* draft creation payload
    draft_data,      \* draft.json()
    draft_id,        \* resolved draft identifier
    idx,             \* enumerate(uploaded_files, start=1)
    success,         \* loop-local flag
    requests,        \* HTTP requests issued before the photo loop
    photo_requests,  \* HTTP requests issued for the current photo
    messages         \* the Streamlit status feed (error/success/code/info)

vars == <<pc, token, url, uploaded_files, listing_id, listing, payload,
          draft_data, draft_id, idx, success, requests, photo_requests,
          messages>>

----------------------------------------------------------------------------
\* Bounds of the model

MaxFrags == 4     \* URL inputs are concatenations of at most MaxFrags fragments
MaxPhotos == 2    \* at most MaxPhotos uploaded files
MaxSize == 1      \* each uploaded file has 0..MaxSize bytes

----------------------------------------------------------------------------
\* Strings

RECURSIVE Concat(_)
Concat(ss) == IF ss = <<>> THEN <<>> ELSE Head(ss) \o Concat(Tail(ss))

Digits == {"0", "1", "2", "3", "4", "5", "6", "7", "8", "9"}

\* "/item/", the separator of url.split("/item/")
ItemSep == <<"/", "i", "t", "e", "m", "/">>

\* "reverb.com/item/", the marker of the membership test
Marker == <<"r", "e", "v", "e", "r", "b", ".", "c", "o", "m">> \o ItemSep

QueryMark == <<"?">>

\* the value None
None == <<"None">>

StartsWithAt(s, p, i) ==
    /\ i + Len(p) - 1 <= Len(s)
    /\ \A k \in 1..Len(p) : s[i + k - 1] = p[k]

\* Python: p in s
In(p, s) == \E i \in 1..Len(s) : StartsWithAt(s, p, i)

\* Python: s.split(sep), a left-to-right scan for non-overlapping separators
RECURSIVE SplitAcc(_, _, _, _)
SplitAcc(s, sep, i, cur) ==
    IF i > Len(s) THEN <<cur>>
    ELSE IF StartsWithAt(s, sep, i)
         THEN <<cur>> \o SplitAcc(s, sep, i + Len(sep), <<>>)
         ELSE SplitAcc(s, sep, i + 1, Append(cur, s[i]))

split(s, sep) == SplitAcc(s, sep, 1, <<>>)

\* re.match(r"^(\d+)", part): the leading digit run, <<>> when there is no match
RECURSIVE LeadingDigits(_)
LeadingDigits(s) ==
    IF s = <<>> \/ Head(s) \notin Digits THEN <<>>
    ELSE <<Head(s)>> \o LeadingDigits(Tail(s))

\* Mutant: the membership test looks for "/item/" only
extract_listing_id_AnyHost(u) ==
    IF ~In(ItemSep, u) THEN None
    ELSE LET part == split(split(u, ItemSep)[2], QueryMark)[1]
             m    == LeadingDigits(part)
         IN  IF m # <<>> THEN m ELSE None

extract_listing_id(u) ==
    IF ~In(Marker, u) THEN None
    ELSE LET part == split(split(u, ItemSep)[2], QueryMark)[1]
             m    == LeadingDigits(part)
         IN  IF m # <<>> THEN m ELSE None

\* URL inputs
Frags == { <<"r", "e", "v", "e", "r", "b", ".", "c", "o", "m">>, ItemSep,
           <<"1">>, <<"2">>, <<"a">>, QueryMark }

FragSeqs == UNION { [1..n -> Frags] : n \in 0..MaxFrags }

UrlInputs == { Concat(fs) : fs \in FragSeqs }

----------------------------------------------------------------------------
\* JSON values and Python dictionary access

Absent == [t |-> "absent"]
Null == [t |-> "null"]
Str(v) == [t |-> "str", v |-> v]
Num(v) == [t |-> "num", v |-> v]
BadJson == [t |-> "badjson"]

\* Python: d.get(key, default); the default applies only when the key is missing
Get(d, key, default) == IF d[key].t = "absent" THEN default ELSE d[key]

\* Python: d.get(key)
GetOrNone(d, key) == Get(d, key, Null)

\* Python truth value of a JSON value
Truthy(v) == v.t \in {"str", "num", "obj"} /\ v # Str("") /\ v # Num("0")

\* Python: a or b
Or(a, b) == IF Truthy(a) THEN a ELSE b

\* the {} default of listing.get("price", {})
EmptyPrice == [t |-> "obj", amount |-> Absent, currency |-> Absent]

\* the {} default of draft_data.get("listing", {})
EmptyListing == [t |-> "obj", id |-> Absent]

TextValues == {Absent, Null, Str("x")}

PriceValues ==
    {Absent, Null} \cup
    { [t |-> "obj", amount |-> a, currency |-> c] :
        a \in {Absent, Str("9.99")}, c \in {Absent, Str("EUR")} }

\* every shape of the source listing
AllListings ==
    { [t |-> "obj", title |-> ti, description |-> de, make |-> ma,
       model |-> mo, price |-> pr] :
        ti \in TextValues, de \in TextValues, ma \in TextValues,
        mo \in TextValues, pr \in PriceValues }

\* the shapes a full run draws the listing GET body from
RunListings ==
    { l \in AllListings :
        /\ l.title = Str("x") /\ l.description = Absent
        /\ l.make = Str("x") /\ l.model = Null
        /\ l.price \in {Null, [t |-> "obj", amount |-> Str("9.99"),
                                currency |-> Absent]} }

\* the payload dictionary of lines 80-90; [t |-> "raised"] when evaluating it
\* raises (listing.get("price", {}) is None and has no .get)
build_payload(l) ==
    LET p == Get(l, "price", EmptyPrice)
    IN  IF p.t # "obj" THEN [t |-> "raised"]
        ELSE [ t |-> "obj",
               title |-> Get(l, "title", Str("")),
               description |-> Get(l, "description", Str("")),
               brand |-> Get(l, "make", Str("")),
               model |-> Get(l, "model", Str("")),
               price |-> [ amount |-> Get(p, "amount", Str("1.00")),
                           currency |-> Get(p, "currency", Str("USD")) ],
               state |-> Str("draft") ]

TopIds == {Absent, Null, Num("0"), Str(""), Num("7")}
NestedIds == {Absent, Null, Num("0"), Num("8")}

DraftBodies ==
    { [t |-> "obj", id |-> i, listing |-> l] :
        i \in TopIds,
        l \in {Absent, Null} \cup { [t |-> "obj", id |-> n] : n \in NestedIds } }

\* Mutant: the nested field is preferred
resolve_draft_id_NestedFirst(d) ==
    LET l == Get(d, "listing", EmptyListing)
    IN  IF l.t # "obj" THEN [raised |-> TRUE, v |-> Null]
        ELSE [raised |-> FALSE, v |-> Or(GetOrNone(l, "id"), GetOrNone(d, "id"))]

\* draft_data.get("id") or draft_data.get("listing", {}).get("id")
resolve_draft_id(d) ==
    LET top == GetOrNone(d, "id")
    IN  IF Truthy(top) THEN [raised |-> FALSE, v |-> top]
        ELSE LET l == Get(d, "listing", EmptyListing)
             IN  IF l.t # "obj" THEN [raised |-> TRUE, v |-> Null]
                 ELSE [raised |-> FALSE, v |-> GetOrNone(l, "id")]

PresignBodies ==
    {BadJson} \cup
    { [t |-> "obj", url |-> u, upload_url |-> w] :
        u \in {Absent, Str("u1")}, w \in {Absent, Str("u2")} }

PhotoBodies == {BadJson} \cup { [t |-> "obj", id |-> i] : i \in {Absent, Num("5")} }

----------------------------------------------------------------------------
\* HTTP

Statuses == {200, 201, 404}

\* what requests.get/post/put produces: a response, or a transport exception
Responses ==
    { [raised |-> TRUE, status |-> 0] } \cup
    { [raised |-> FALSE, status |-> s] : s \in Statuses }

\* Mutant: every response counts as a success
Ok_Any(resp) == TRUE

\* the test `status_code in (200, 201)`
Ok(resp) == resp.status \in {200, 201}

Req(method, endpoint, carries, photo, draft, pos, sent, resp) ==
    [ method |-> method, endpoint |-> endpoint, carries |-> carries,
      photo |-> photo, draft |-> draft, pos |-> pos, sent |-> sent,
      raised |-> resp.raised, status |-> resp.status ]

\* a feed entry: status is the HTTP status it displays (0: none), body tells
\* whether it displays a response body
Msg(level, text, photo, status, body) ==
    [ level |-> level, text |-> text, photo |-> photo, status |-> status,
      body |-> body ]

----------------------------------------------------------------------------
\* The script run

\* up to MaxPhotos files of one size
FileInputs ==
    { [k \in 1..n |-> [size |-> z, pos |-> 0]] : n \in 0..MaxPhotos, z \in 0..MaxSize }

RunUrls ==
    { <<>>,
      <<"a">>,
      Marker \o <<"a">>,
      Marker \o <<"1", "a", "?", "2">> }

Tokens == { <<>>, <<"T">> }

InitRest ==
    /\ listing_id = None
    /\ listing = Absent
    /\ payload = Absent
    /\ draft_data = Absent
    /\ draft_id = Absent
    /\ idx = 0
    /\ success = FALSE
    /\ requests = <<>>
    /\ photo_requests = <<>>
    /\ messages = <<>>

Init ==
    /\ pc = "preview"
    /\ token \in Tokens
    /\ url \in RunUrls
    /\ uploaded_files \in FileInputs
    /\ InitRest

\* lines 25-30: every file is sought to 0, shown, and sought to 0 again
PreviewPhotos ==
    /\ pc = "preview"
    /\ uploaded_files' =
         [k \in DOMAIN uploaded_files |-> [uploaded_files[k] EXCEPT !.pos = 0]]
    /\ pc' = "button"
    /\ UNCHANGED <<token, url, listing_id, listing, payload, draft_data,
                   draft_id, idx, success, requests,
                   photo_requests, messages>>

\* Mutant: the input errors are reported but the run goes on
ValidateInputs_NoStop ==
    /\ pc = "button"
    /\ IF token = <<>> \/ url = <<>>
       THEN /\ messages' = Append(messages, Msg("error", "missing_input", 0, 0, FALSE))
            /\ pc' = "fetch"
            /\ UNCHANGED listing_id
       ELSE /\ listing_id' = extract_listing_id(url)
            /\ pc' = "fetch"
            /\ IF listing_id' = None
               THEN messages' = Append(messages, Msg("error", "invalid_url", 0, 0, FALSE))
               ELSE messages' = Append(messages, Msg("info", "fetching", 0, 0, FALSE))
    /\ UNCHANGED <<token, url, uploaded_files, listing, payload, draft_data,
                   draft_id, idx, success, requests,
                   photo_requests>>

\* lines 55-68: "Create Draft" pressed; validation of token and URL
ValidateInputs ==
    /\ pc = "button"
    /\ IF token = <<>> \/ url = <<>>
       THEN /\ messages' = Append(messages, Msg("error", "missing_input", 0, 0, FALSE))
            /\ pc' = "stopped"
            /\ UNCHANGED listing_id
       ELSE /\ listing_id' = extract_listing_id(url)
            /\ IF listing_id' = None
               THEN /\ messages' = Append(messages, Msg("error", "invalid_url", 0, 0, FALSE))
                    /\ pc' = "stopped"
               ELSE /\ messages' = Append(messages, Msg("info", "fetching", 0, 0, FALSE))
                    /\ pc' = "fetch"
    /\ UNCHANGED <<token, url, uploaded_files, listing, payload, draft_data,
                   draft_id, idx, success, requests,
                   photo_requests>>

\* lines 69-75: GET /listings/{listing_id}
FetchListing ==
    /\ pc = "fetch"
    /\ \E resp \in Responses, body \in RunListings \cup {BadJson} :
         /\ requests' = Append(requests,
               Req("GET", "listings/{listing_id}", "none", 0, Absent, 0, 0, resp))
         /\ IF resp.raised
            THEN pc' = "crashed" /\ UNCHANGED <<listing, messages>>
            ELSE IF resp.status # 200
            THEN /\ messages' = messages \o
                      << Msg("error", "fetch_failed", 0, 0, FALSE),
                         Msg("code", "r.text", 0, 0, TRUE) >>
                 /\ pc' = "stopped"
                 /\ UNCHANGED listing
            ELSE IF body.t = "badjson"
            THEN pc' = "crashed" /\ UNCHANGED <<listing, messages>>
            ELSE listing' = body /\ pc' = "build" /\ UNCHANGED messages
    /\ UNCHANGED <<token, url, uploaded_files, listing_id, payload, draft_data,
                   draft_id, idx, success, photo_requests>>

\* lines 80-92: the payload dictionary
BuildPayload ==
    /\ pc = "build"
    /\ LET p == build_payload(listing)
       IN  IF p.t = "raised"
           THEN pc' = "crashed" /\ UNCHANGED <<payload, messages>>
           ELSE /\ payload' = p
                /\ messages' = Append(messages, Msg("info", "creating_draft", 0, 0, FALSE))
                /\ pc' = "create"
    /\ UNCHANGED <<token, url, uploaded_files, listing_id, listing, draft_data,
                   draft_id, idx, success, requests,
                   photo_requests>>

\* lines 93-110: POST /listings and resolution of the draft identifier
PostDraft ==
    /\ pc = "create"
    /\ \E resp \in Responses, body \in DraftBodies \cup {BadJson} :
         /\ requests' = Append(requests,
               Req("POST", "listings", "json_payload", 0, Absent, 0, 0, resp))
         /\ IF resp.raised
            THEN pc' = "crashed" /\ UNCHANGED <<draft_data, draft_id, messages>>
            ELSE IF ~Ok(resp)
            THEN /\ messages' = messages \o
                      << Msg("error", "draft_failed", 0, 0, FALSE),
                         Msg("code", "draft.text", 0, 0, TRUE) >>
                 /\ pc' = "stopped"
                 /\ UNCHANGED <<draft_data, draft_id>>
            ELSE IF body.t = "badjson"
            THEN pc' = "crashed" /\ UNCHANGED <<draft_data, draft_id, messages>>
            ELSE /\ draft_data' = body
                 /\ LET r == resolve_draft_id(body)
                    IN  IF r.raised
                        THEN pc' = "crashed" /\ UNCHANGED <<draft_id, messages>>
                        ELSE /\ draft_id' = r.v
                             /\ IF ~Truthy(r.v)
                                THEN /\ messages' = Append(messages,
                                          Msg("error", "no_draft_id", 0, 0, FALSE))
                                     /\ pc' = "stopped"
                                ELSE /\ messages' = Append(messages,
                                          Msg("success", "draft_created", 0, 0, FALSE))
                                     /\ pc' = "upload_branch"
    /\ UNCHANGED <<token, url, uploaded_files, listing_id, listing, payload,
                   idx, success, photo_requests>>

\* lines 115-116 and 211-212: the photo loop is entered, or skipped with a note
UploadBranch ==
    /\ pc = "upload_branch"
    /\ IF Len(uploaded_files) > 0
       THEN /\ messages' = Append(messages, Msg("info", "uploading_photos", 0, 0, FALSE))
            /\ idx' = 1
            /\ pc' = "photo_begin"
       ELSE /\ messages' = Append(messages, Msg("info", "no_photos", 0, 0, FALSE))
            /\ pc' = "finish"
            /\ UNCHANGED idx
    /\ UNCHANGED <<token, url, uploaded_files, listing_id, listing, payload,
                   draft_data, draft_id, success,
                   requests, photo_requests>>

\* lines 117-126: seek(0), len(file.read()), seek(0), success = False
PhotoBegin ==
    /\ pc = "photo_begin"
    /\ uploaded_files' = [uploaded_files EXCEPT ![idx].pos = 0]
    /\ success' = FALSE
    /\ photo_requests' = <<>>
    /\ pc' = "attempt1"
    /\ UNCHANGED <<token, url, listing_id, listing, payload, draft_data,
                   draft_id, idx, requests, messages>>

\* a request whose body the requests library reads from the file object:
\* it sends the bytes from the current position on and leaves the position
\* at the end of the file
SendFile(method, endpoint, carries, draft, resp) ==
    LET f == uploaded_files[idx]
    IN  /\ photo_requests' = Append(photo_requests,
              Req(method, endpoint, carries, idx, draft, f.pos, f.size - f.pos, resp))
        /\ uploaded_files' = [uploaded_files EXCEPT ![idx].pos = f.size]

\* a request with a JSON body
SendJson(method, endpoint, carries, draft, resp) ==
    /\ photo_requests' = Append(photo_requests,
          Req(method, endpoint, carries, idx, draft, 0, 0, resp))
    /\ UNCHANGED uploaded_files

\* the for loop moves to the next file, or ends
NextPhoto ==
    IF idx < Len(uploaded_files)
    THEN idx' = idx + 1 /\ pc' = "photo_begin"
    ELSE pc' = "finish" /\ UNCHANGED idx

\* Mutant: the success is reported without `continue`
Succeed_NoContinue(text) ==
    /\ messages' = Append(messages, Msg("success", text, idx, 0, FALSE))
    /\ success' = TRUE
    /\ IF pc = "attempt1"
       THEN pc' = "attempt2" /\ UNCHANGED idx
       ELSE NextPhoto

\* st.success(...); success = True; continue
Succeed(text) ==
    /\ messages' = Append(messages, Msg("success", text, idx, 0, FALSE))
    /\ success' = TRUE
    /\ NextPhoto

\* Mutant: the exception handler ends the loop
Caught_Break ==
    /\ messages' = messages \o
          << Msg("error", "exception", idx, 0, FALSE),
             Msg("code", "str(e)", idx, 0, FALSE) >>
    /\ pc' = "finish"
    /\ UNCHANGED <<success, idx>>

\* lines 208-210: except Exception
Caught ==
    /\ messages' = messages \o
          << Msg("error", "exception", idx, 0, FALSE),
             Msg("code", "str(e)", idx, 0, FALSE) >>
    /\ UNCHANGED success
    /\ NextPhoto

\* lines 205-206: if not success
AllFailed ==
    /\ IF ~success
       THEN messages' = Append(messages, Msg("error", "all_failed", idx, 0, FALSE))
       ELSE UNCHANGED messages
    /\ UNCHANGED success
    /\ NextPhoto

\* lines 129-140: multipart POST with the "photo" key
Attempt1 ==
    /\ pc = "attempt1"
    /\ \E resp \in Responses :
         /\ SendFile("POST", "my/listings/{draft_id}/photos", "multipart_photo",
                     draft_id, resp)
         /\ IF resp.raised THEN Caught
            ELSE IF Ok(resp) THEN Succeed("direct_upload_worked")
            ELSE pc' = "attempt2" /\ UNCHANGED <<messages, success, idx>>
    /\ UNCHANGED <<token, url, listing_id, listing, payload, draft_data,
                   draft_id, requests>>

\* lines 143-154: multipart POST with the "file" key
Attempt2 ==
    /\ pc = "attempt2"
    /\ \E resp \in Responses :
         /\ SendFile("POST", "my/listings/{draft_id}/photos", "multipart_file",
                     draft_id, resp)
         /\ IF resp.raised THEN Caught
            ELSE IF Ok(resp) THEN Succeed("file_key_upload_worked")
            ELSE pc' = "attempt3_presign" /\ UNCHANGED <<messages, success, idx>>
    /\ UNCHANGED <<token, url, listing_id, listing, payload, draft_data,
                   draft_id, requests>>

\* lines 157-168: POST .../photos/presigned_url
Attempt3Presign ==
    /\ pc = "attempt3_presign"
    /\ \E resp \in Responses, body \in PresignBodies :
         /\ SendJson("POST", "my/listings/{draft_id}/photos/presigned_url",
                     "json_presign", draft_id, resp)
         /\ IF resp.raised THEN Caught
            ELSE IF ~Ok(resp)
            THEN pc' = "attempt4" /\ UNCHANGED <<messages, success, idx>>
            ELSE IF body.t = "badjson" THEN Caught
            ELSE LET upload_url == Or(GetOrNone(body, "url"), GetOrNone(body, "upload_url"))
                 IN  /\ pc' = IF Truthy(upload_url) THEN "attempt3_put" ELSE "attempt4"
                     /\ UNCHANGED <<messages, success, idx>>
    /\ UNCHANGED <<token, url, listing_id, listing, payload, draft_data,
                   draft_id, requests>>

\* lines 169-179: PUT of file.read() to the presigned URL
Attempt3Put ==
    /\ pc = "attempt3_put"
    /\ \E resp \in Responses :
         /\ SendFile("PUT", "{upload_url}", "raw", Absent, resp)
         /\ IF resp.raised THEN Caught
            ELSE IF Ok(resp) THEN Succeed("presigned_upload_worked")
            ELSE pc' = "attempt4" /\ UNCHANGED <<messages, success, idx>>
    /\ UNCHANGED <<token, url, listing_id, listing, payload, draft_data,
                   draft_id, requests>>

\* lines 182-193: multipart POST /photos with the "file" key
Attempt4Upload ==
    /\ pc = "attempt4"
    /\ \E resp \in Responses, body \in PhotoBodies :
         /\ SendFile("POST", "photos", "multipart_file", Absent, resp)
         /\ IF resp.raised THEN Caught
            ELSE IF ~Ok(resp) THEN AllFailed
            ELSE IF body.t = "badjson" THEN Caught
            ELSE LET photo_id == GetOrNone(body, "id")
                 IN  IF Truthy(photo_id)
                     THEN pc' = "attempt4_associate" /\ UNCHANGED <<messages, success, idx>>
                     ELSE AllFailed
    /\ UNCHANGED <<token, url, listing_id, listing, payload, draft_data,
                   draft_id, requests>>

\* lines 194-203: POST of {"photo_id": ...} to the draft's photos
Attempt4Associate ==
    /\ pc = "attempt4_associate"
    /\ \E resp \in Responses :
         /\ SendJson("POST", "my/listings/{draft_id}/photos", "json_photo_id",
                     draft_id, resp)
         /\ IF resp.raised THEN Caught
            ELSE IF Ok(resp) THEN Succeed("alt_file_associate_worked")
            ELSE AllFailed
    /\ UNCHANGED <<token, url, listing_id, listing, payload, draft_data,
                   draft_id, requests>>

\* line 214
Finish ==
    /\ pc = "finish"
    /\ messages' = Append(messages, Msg("success", "draft_ready", 0, 0, FALSE))
    /\ pc' = "done"
    /\ UNCHANGED <<token, url, uploaded_files, listing_id, listing, payload,
                   draft_data, draft_id, idx, success,
                   requests, photo_requests>>

Next ==
    \/ PreviewPhotos
    \/ ValidateInputs
    \/ FetchListing
    \/ BuildPayload
    \/ PostDraft
    \/ UploadBranch
    \/ PhotoBegin
    \/ Attempt1
    \/ Attempt2
    \/ Attempt3Presign
    \/ Attempt3Put
    \/ Attempt4Upload
    \/ Attempt4Associate
    \/ Finish

Spec == Init /\ [][Next]_vars

\* extract_listing_id applied to every URL input
InitExtract ==
    /\ pc = "button"
    /\ token = <<"T">>
    /\ url \in UrlInputs
    /\ uploaded_files = <<>>
    /\ InitRest

NextExtract == ValidateInputs

SpecExtract == InitExtract /\ [][NextExtract]_vars

\* the payload built from every listing shape
InitPayload ==
    /\ pc = "build"
    /\ token = <<"T">>
    /\ url = Marker \o <<"1">>
    /\ uploaded_files = <<>>
    /\ listing \in AllListings
    /\ listing_id = <<"1">>
    /\ payload = Absent
    /\ draft_data = Absent
    /\ draft_id = Absent
    /\ idx = 0
    /\ success = FALSE
    /\ requests = <<>>
    /\ photo_requests = <<>>
    /\ messages = <<>>

NextPayload == BuildPayload

SpecPayload == InitPayload /\ [][NextPayload]_vars

----------------------------------------------------------------------------
\* Properties

\* the indices at which "/item/" occurs in u
ItemAt(u) == { i \in 1..Len(u) : StartsWithAt(u, ItemSep, i) }

\* the maximal run of digits of u that starts at index j
DigitRunAt(u, j) ==
    LET n == CHOOSE n \in 0..Len(u) :
                 /\ \A k \in j..(j + n - 1) : k <= Len(u) /\ u[k] \in Digits
                 /\ j + n > Len(u) \/ u[j + n] \notin Digits
    IN  SubSeq(u, j, j + n - 1)

\* the identifier of a URL that contains "reverb.com/item/": the digit run
\* after the first "/item/"
ExpectedId(u) ==
    IF ~In(Marker, u) THEN None
    ELSE LET i   == CHOOSE i \in ItemAt(u) : \A j \in ItemAt(u) : i <= j
             run == DigitRunAt(u, i + Len(ItemSep))
         IN  IF run = <<>> THEN None ELSE run

\* C1 as stated: a URL in which some "/item/" is followed by a digit yields
\* the digit run after such a marker, and every other URL yields None.
C1_Original ==
    pc # "button" =>
        LET runs == { DigitRunAt(url, i + Len(ItemSep)) : i \in ItemAt(url) } \ {<<>>}
        IN  IF runs # {} THEN listing_id \in runs ELSE listing_id = None

\* C1 amended: a URL that contains "reverb.com/item/" yields the leading digit
\* run of the text after its first "/item/" (None when that text does not
\* start with a digit); a URL without "reverb.com/item/" yields None.
C1_Extract == pc # "button" => listing_id = ExpectedId(url)

C1_Witness ==
    /\ pc = "fetch"
    /\ listing_id # None
    /\ Len(url) > Len(Marker) + Len(listing_id)
    /\ In(QueryMark, url)

InputInvalid == token = <<>> \/ url = <<>> \/ extract_listing_id(url) = None

InputErrorShown ==
    \E k \in 1..Len(messages) :
        messages[k].level = "error" /\ messages[k].text \in {"missing_input", "invalid_url"}

\* C2: an empty token, an empty URL or a URL without identifier is reported
\* and stops the run, and a run with an input error issues no HTTP request.
C2_InputErrorBeforeNetwork ==
    /\ (pc \notin {"preview", "button"} /\ InputInvalid) => InputErrorShown
    /\ InputErrorShown =>
          /\ pc = "stopped"
          /\ requests = <<>>
          /\ photo_requests = <<>>

C2_Witness ==
    /\ pc = "stopped"
    /\ token # <<>>
    /\ In(Marker, url)
    /\ InputErrorShown

ReadyShown ==
    \E k \in 1..Len(messages) : messages[k].text = "draft_ready"

\* the creation response carries no identifier in either field
NoIdentifier(d) ==
    /\ ~Truthy(GetOrNone(d, "id"))
    /\ d.listing.t = "obj" => ~Truthy(GetOrNone(d.listing, "id"))

Aborted(n) ==
    /\ pc \in {"stopped", "crashed"}
    /\ Len(requests) = n
    /\ photo_requests = <<>>
    /\ idx = 0
    /\ ~ReadyShown

\* C3: after a listing GET or a draft POST with a non-success status, or a
\* draft response without identifier, the run is over: that request is the
\* last one and "Draft ready" is not reported.
C3_TerminalErrorsAbort ==
    /\ (Len(requests) >= 1 /\ ~requests[1].raised /\ requests[1].status \notin {200, 201})
          => Aborted(1)
    /\ (Len(requests) >= 2 /\ ~requests[2].raised /\ requests[2].status \notin {200, 201})
          => Aborted(2)
    /\ (draft_data.t = "obj" /\ NoIdentifier(draft_data)) => Aborted(2)

C3_Witness ==
    /\ pc = "stopped"
    /\ Len(requests) = 2
    /\ requests[2].status = 404
    /\ Len(uploaded_files) > 0

\* C4: a run stopped by a failed request shows the status and the body of
\* that request.
C4_TerminalErrorsShowStatusAndBody ==
    (pc = "stopped" /\ requests # <<>>) =>
        LET q == requests[Len(requests)]
        IN  /\ \E k \in 1..Len(messages) : messages[k].status = q.status
            /\ \E k \in 1..Len(messages) : messages[k].body

\* the price field of the payload: the source's, or the default
ExpectedPrice(l, key, default) ==
    IF l.price.t = "obj" /\ l.price[key].t # "absent" THEN l.price[key] ELSE default

\* C5: for every shape of the source price the payload is built, and each
\* price field is the source's when present and the default otherwise.
C5_PriceDefaults ==
    pc # "build" =>
        /\ pc = "create"
        /\ payload.price.amount = ExpectedPrice(listing, "amount", Str("1.00"))
        /\ payload.price.currency = ExpectedPrice(listing, "currency", Str("USD"))

\* C6: the payload's title and description are strings, the empty string
\* when the source has none.
C6_NoNullText ==
    pc = "create" =>
        /\ payload.title.t = "str"
        /\ payload.description.t = "str"
        /\ listing.title.t = "absent" => payload.title = Str("")
        /\ listing.description.t = "absent" => payload.description = Str("")

\* a field that is there with a value
Present(v) == v.t \notin {"absent", "null"}

NestedId(d) == IF d.listing.t = "obj" THEN d.listing.id ELSE Absent

\* the requests of the current photo that are addressed to the draft
DraftRequests ==
    { k \in 1..Len(photo_requests) : photo_requests[k].draft.t # "absent" }

\* C7 as stated: with both fields present the photo requests use the
\* top-level identifier, and the nested one is used only when the top-level
\* field is absent.
C7_Original ==
    \A k \in DraftRequests :
        LET q == photo_requests[k]
        IN  /\ (Present(draft_data.id) /\ Present(NestedId(draft_data)))
                  => q.draft = draft_data.id
            /\ q.draft # draft_data.id => ~Present(draft_data.id)

\* C7 amended: a top-level id with a true value (not null, 0 or "") is the
\* identifier of every photo request; the nested id is used only when the
\* top-level id is absent or has a false value.
C7_DraftId ==
    \A k \in DraftRequests :
        LET q == photo_requests[k]
        IN  /\ q.draft = draft_id
            /\ Truthy(draft_data.id) => q.draft = draft_data.id
            /\ ~Truthy(GetOrNone(draft_data, "id")) => q.draft = NestedId(draft_data)

C7_Witness ==
    /\ DraftRequests # {}
    /\ draft_data.id = Num("7")
    /\ NestedId(draft_data) = Num("8")
    /\ photo_requests[1].draft = Num("7")

IsOutcome(m) == m.photo > 0 /\ m.level \in {"success", "error"}

\* the per-photo outcomes reported so far
Outcomes == SelectSeq(messages, IsOutcome)

\* the photos whose iteration is over
PhotosDone ==
    IF idx = 0 THEN 0
    ELSE IF pc \in {"finish", "done"} THEN Len(uploaded_files)
    ELSE idx - 1

\* C8: the outcomes reported are those of photos 1, 2, ... in order, one per
\* photo whose iteration is over; no response or exception of an upload
\* attempt ends the run, and the run ends with "Draft ready".
C8_OneOutcomePerPhoto ==
    /\ Len(Outcomes) = PhotosDone
    /\ \A k \in 1..Len(Outcomes) : Outcomes[k].photo = k
    /\ idx > 0 => pc \notin {"stopped", "crashed"}
    /\ (idx > 0 /\ pc # "done") => ENABLED Next
    /\ pc = "done" => messages[Len(messages)].text = "draft_ready"

C8_Witness ==
    /\ pc = "done"
    /\ Len(uploaded_files) >= 2
    /\ Outcomes[1].level = "error"
    /\ Outcomes[2].level = "success"

\* what a photo request is for
Purpose(q) ==
    IF q.carries \in {"multipart_photo", "multipart_file", "raw"} THEN "upload"
    ELSE q.carries

RunRequestsOnce ==
    /\ Len(requests) <= 2
    /\ Len(requests) >= 1 => requests[1].method = "GET"
    /\ Len(requests) = 2 => requests[2].method = "POST"

\* C9 as stated: GET and POST once; for a photo no endpoint is asked again for
\* the same purpose after a non-success status, and a successful upload is
\* the photo's last request.
C9_Original ==
    /\ RunRequestsOnce
    /\ \A i, j \in 1..Len(photo_requests) :
          (/\ i < j
           /\ photo_requests[i].endpoint = photo_requests[j].endpoint
           /\ Purpose(photo_requests[i]) = Purpose(photo_requests[j]))
             => Ok(photo_requests[i])
    /\ \A i \in 1..Len(photo_requests) :
          (Purpose(photo_requests[i]) = "upload" /\ Ok(photo_requests[i]))
             => i = Len(photo_requests)

SuccessShown(k) ==
    \E n \in 1..Len(messages) : messages[n].level = "success" /\ messages[n].photo = k

\* C9 amended: GET and POST once; for a photo no request of the same method,
\* endpoint and body form is issued twice, and once the photo's success is
\* reported its last request is a successful one and no attempt follows.
C9_NoRepeat ==
    /\ RunRequestsOnce
    /\ \A i, j \in 1..Len(photo_requests) :
          (/\ i < j
           /\ photo_requests[i].method = photo_requests[j].method
           /\ photo_requests[i].endpoint = photo_requests[j].endpoint)
             => photo_requests[i].carries # photo_requests[j].carries
    /\ \A k \in 1..Len(uploaded_files) :
          (SuccessShown(k) /\ idx = k) =>
              /\ pc \in {"finish", "done"}
              /\ ~photo_requests[Len(photo_requests)].raised
              /\ Ok(photo_requests[Len(photo_requests)])

C9_Witness ==
    /\ Len(photo_requests) >= 2
    /\ photo_requests[1].endpoint = photo_requests[2].endpoint
    /\ photo_requests[1].status = 404
    /\ photo_requests[2].status = 201

\* C10: every request that carries the file is made with the file at
\* position 0 and sends all of its bytes.
C10_ReadFromStart ==
    \A k \in 1..Len(photo_requests) :
        LET q == photo_requests[k]
        IN  Purpose(q) = "upload" =>
                q.pos = 0 /\ q.sent = uploaded_files[q.photo].size

====
